---- MODULE Spec2Model ----
(***************************************************************************)
(* Listen-Along-Server (src/server.js): the room registry, the playback    *)
(* state store, the broadcast fan-out, the connection lifecycle, the       *)
(* message router and the heartbeat timer, as one state machine.           *)
(*                                                                         *)
(* Conventions.                                                            *)
(*  - A JavaScript value is a tagged tuple: <<"null">>, <<"undefined">>,   *)
(*    <<"NaN">>, <<"boolean", b>>, <<"number", n>>, <<"string", s>>,       *)
(*    <<"object", record>>.                                                *)
(*  - Numbers that are playback positions are held in thousandths of a     *)
(*    second, so that (Date.now() - positionSetAt) / 1000 is exact:        *)
(*    JNum(42500) is the JavaScript number 42.5.                           *)
(*  - A handler runs to its first await (or to its end) in one step and    *)
(*    reads Date.now() as the variable now; the part of an async handler   *)
(*    after an await is a step of its own.                                 *)
(*  - The variable last describes the step just taken (the event, what it  *)
(*    sent, the broadcastToRoom calls it made, whether it threw); the      *)
(*    program itself never reads it.                                       *)
(***************************************************************************)
EXTENDS Integers, Sequences, FiniteSets, TLC

\* ------------------------------------------------------------- bounds

\* Connections accepted over the life of the server.
MaxConns == 3
\* Clock readings after the first: now ranges over 0 .. MaxTicks * TickMs.
MaxTicks == 2
\* Avatar uploads in flight (awaiting fetchUrl or processAvatar) at once.
MaxPending == 1

\* ------------------------------------------------------ JavaScript values

JNull == <<"null">>
JUndef == <<"undefined">>
JNaN == <<"NaN">>
JBool(b) == <<"boolean", b>>
JNum(n) == <<"number", n>>
JStr(s) == <<"string", s>>
JObj(o) == <<"object", o>>

IsStr(v) == v[1] = "string"
IsObj(v) == v[1] = "object"

\* ToBoolean: false, 0, NaN, "", null and undefined are falsy.
Truthy(v) ==
    CASE v[1] = "null" -> FALSE
      [] v[1] = "undefined" -> FALSE
      [] v[1] = "NaN" -> FALSE
      [] v[1] = "boolean" -> v[2]
      [] v[1] = "number" -> v[2] # 0
      [] v[1] = "string" -> v[2] # ""
      [] OTHER -> TRUE

\* a || b and a && b.
JOr(a, b) == IF Truthy(a) THEN a ELSE b
JAnd(a, b) == IF Truthy(a) THEN b ELSE a

\* String.prototype.includes and startsWith.
Includes(s, sub) ==
    \E i \in 1..(Len(s) - Len(sub) + 1) : SubSeq(s, i, i + Len(sub) - 1) = sub
StartsWith(s, pre) == Len(s) >= Len(pre) /\ SubSeq(s, 1, Len(pre)) = pre

\* String.prototype.trim, for the blank this model's texts use (the space).
RECURSIVE TrimLeft(_)
TrimLeft(s) == IF s # "" /\ Head(s) = " " THEN TrimLeft(Tail(s)) ELSE s
RECURSIVE TrimRight(_)
TrimRight(s) ==
    IF s # "" /\ SubSeq(s, Len(s), Len(s)) = " "
    THEN TrimRight(SubSeq(s, 1, Len(s) - 1))
    ELSE s
Trim(s) == TrimRight(TrimLeft(s))

\* Property read and property write on a decoded message.  Reading a
\* property of a number, a string or a boolean gives undefined (none of the
\* names the router reads is defined on them); writing one is ignored
\* (the file is not in strict mode).  Reading one of null throws: see
\* OnMessage.
Get(v, k) ==
    IF IsObj(v) /\ k \in DOMAIN v[2] THEN v[2][k] ELSE JUndef
\* An assignment that is dropped.
PutNothing(v, k, x) == v

Put(v, k, x) ==
    IF IsObj(v)
    THEN JObj([f \in DOMAIN v[2] \cup {k} |-> IF f = k THEN x ELSE v[2][f]])
    ELSE v

\* JSON.stringify: a property whose value is undefined is left out, NaN is
\* written null; the result is what a receiver decodes.
Stringify(v) ==
    IF IsObj(v)
    THEN JObj([f \in {g \in DOMAIN v[2] : v[2][g] # JUndef} |->
                 IF v[2][f] = JNaN THEN JNull ELSE v[2][f]])
    ELSE IF v = JNaN THEN JNull ELSE v

\* Maps (Map.set, Map.delete); the empty Map is << >>.
MapSet(m, k, x) == [y \in DOMAIN m \cup {k} |-> IF y = k THEN x ELSE m[y]]
MapDel(m, k) == [y \in DOMAIN m \ {k} |-> m[y]]

\* --------------------------------------------------------------- state

VARIABLES
    now,          \* Date.now(), in ms
    nextBeat,     \* when the heartbeat interval is next due
    validRooms,   \* the allow-list read from rooms.txt
    rooms,        \* roomId -> the room's sockets, in insertion order
    roomState,    \* roomId -> playback state
    avatarCache,  \* "<roomId>__<clientId>" -> base64 image
    ws,           \* connection -> the socket object and its handler's closure
    pending,      \* avatar uploads suspended at an await
    sharp,        \* whether require("sharp") succeeded at start-up
    brokenSend,   \* sockets whose send() throws
    last          \* the step just taken

vars == <<now, nextBeat, validRooms, rooms, roomState, avatarCache, ws,
          pending, sharp, brokenSend, last>>

Conns == 1..MaxConns

SYNC_INTERVAL_MS == 5000
TickMs == SYNC_INTERVAL_MS \div 2

\* Ready states of a socket.
OPEN == 1
CLOSING == OPEN + 1
CLOSED == OPEN + 2

\* --------------------------------------------------- playback state store

NewRoomState ==
    [path |-> JNull, playing |-> JBool(FALSE), position |-> JNum(0),
     positionSetAt |-> now, duration |-> JNull]

\* getRoomState's effect on the store, and the entry it returns.
EnsureState(rs, roomId) ==
    IF roomId \in DOMAIN rs THEN rs ELSE MapSet(rs, roomId, NewRoomState)
getRoomState(rs, roomId) == EnsureState(rs, roomId)[roomId]

\* The position as last stored, whatever time has passed since.
storedPosition(state) == state.position

currentPosition(state) ==
    IF ~Truthy(state.playing)
    THEN state.position
    ELSE LET elapsed == ((now - state.positionSetAt) * 1000) \div 1000
         IN  JNum(state.position[2] + elapsed)

\* A snapshot that restarts the clock without collapsing the position.
snapshotStored(state) == [state EXCEPT !.positionSetAt = now]

snapshotPosition(state) ==
    [state EXCEPT !.position = currentPosition(state), !.positionSetAt = now]

\* -------------------------------------------------------------- broadcast

\* One client.send(msg): the frame is written when the socket is open,
\* dropped otherwise; a socket in brokenSend throws instead.
RECURSIVE Fanout(_, _, _, _, _)
Fanout(members, i, data, exclude, acc) ==
    IF i > Len(members) THEN acc
    ELSE LET client == members[i] IN
         IF client # exclude /\ ws[client].readyState = OPEN
         THEN IF client \in brokenSend
              THEN [acc EXCEPT !.threw = TRUE]
              ELSE Fanout(members, i + 1, data, exclude,
                          [acc EXCEPT !.out = Append(@, [to |-> client, data |-> data]),
                                      !.ret = @ + 1])
         ELSE Fanout(members, i + 1, data, exclude, acc)

\* broadcastToRoom over the members of every room.
broadcastToAllRooms(rms, roomId, msgObj, exclude) ==
    LET everyone == SelectSeq([c \in 1..MaxConns |-> c],
                              LAMBDA c : \E k \in DOMAIN rms :
                                             \E i \in 1..Len(rms[k]) : rms[k][i] = c)
    IN  Fanout(everyone, 1, Stringify(msgObj), exclude,
               [room |-> roomId, exclude |-> exclude, members |-> everyone,
                out |-> <<>>, ret |-> 0, threw |-> FALSE])

\* broadcastToRoom without its exclusion test.
broadcastToEveryone(rms, roomId, msgObj, exclude) ==
    LET none == [room |-> roomId, exclude |-> exclude,
                 members |-> IF roomId \in DOMAIN rms THEN rms[roomId] ELSE <<>>,
                 out |-> <<>>, ret |-> 0, threw |-> FALSE]
    IN  IF roomId \notin DOMAIN rms \/ Len(rms[roomId]) = 0
        THEN none
        ELSE Fanout(rms[roomId], 1, Stringify(msgObj), 0, none)

\* broadcastToRoom(roomId, msgObj, exclude) on the registry rms: the frames
\* written (out), the count returned (ret), whether a send threw, and the
\* call as the caller made it.  exclude = 0 stands for null.
broadcastToRoom(rms, roomId, msgObj, exclude) ==
    LET none == [room |-> roomId, exclude |-> exclude,
                 members |-> IF roomId \in DOMAIN rms THEN rms[roomId] ELSE <<>>,
                 out |-> <<>>, ret |-> 0, threw |-> FALSE]
    IN  IF roomId \notin DOMAIN rms \/ Len(rms[roomId]) = 0
        THEN none
        ELSE Fanout(rms[roomId], 1, Stringify(msgObj), exclude, none)

broadcastAll(rms, roomId, msgObj) == broadcastToRoom(rms, roomId, msgObj, 0)

StateSync(state, by) ==
    JObj([type |-> JStr("state_sync"), path |-> state.path,
          playing |-> state.playing, position |-> currentPosition(state),
          serverTime |-> JNum(now), by |-> by])

\* A state_sync of the state as it was before the handler changed it.
broadcastStaleSync(rms, rs, roomId, triggeredBy) ==
    broadcastAll(rms, roomId, StateSync(getRoomState(roomState, roomId), triggeredBy))

\* broadcastStateSync(roomId, triggeredBy) with the store rs.
broadcastStateSync(rms, rs, roomId, triggeredBy) ==
    broadcastAll(rms, roomId, StateSync(getRoomState(rs, roomId), triggeredBy))

\* ------------------------------------------------------------ the step log

NoFrame == [kind |-> "none"]

Log(ev, s, frame, ran, sent, calls, threw) ==
    [ev |-> ev, conn |-> s, frame |-> frame, ran |-> ran, sent |-> sent,
     calls |-> calls, threw |-> threw]

\* ws.send(JSON.stringify(obj)) on socket s whose ready state is rdy.
Send(s, rdy, obj) ==
    IF rdy = OPEN THEN <<[to |-> s, data |-> Stringify(obj)]>> ELSE <<>>

\* ------------------------------------------------------------ room helpers

\* The key a room identifier is filed under (a Map keeps null apart from
\* every string).
Key(roomId) == IF IsStr(roomId) THEN roomId[2] ELSE "<" \o roomId[1] \o ">"

AvatarKey(roomId, clientId) == Key(roomId) \o "__" \o Key(clientId)

\* getRoomClients(roomId).add(s)
AddClient(rms, k, s) ==
    IF k \in DOMAIN rms
    THEN IF \E i \in 1..Len(rms[k]) : rms[k][i] = s
         THEN rms
         ELSE [rms EXCEPT ![k] = Append(@, s)]
    ELSE MapSet(rms, k, <<s>>)

\* A delete that removes nothing.
WithoutNobody(members, s) == members

\* Set.delete
Without(members, s) == SelectSeq(members, LAMBDA c : c # s)

\* A cleanup that keeps the entry of a room it has emptied.
cleanupKeepsRoom(s) ==
    LET k == Key(ws[s]._roomId)
    IN  IF ~Truthy(ws[s]._roomId) \/ k \notin DOMAIN rooms
        THEN [rooms |-> rooms, calls |-> <<>>]
        ELSE LET rms == [rooms EXCEPT ![k] = Without(rooms[k], s)]
             IN  [rooms |-> rms,
                  calls |-> <<broadcastToRoom(rms, k,
                                JObj([type |-> JStr("client_left"),
                                      clientId |-> ws[s]._clientId]), 0)>>]

\* cleanupClient(ws): the registry and the broadcast call it makes (none
\* when it returns early).
cleanupClient(s) ==
    LET roomId == ws[s]._roomId
        k == Key(roomId)
    IN  IF ~Truthy(roomId) \/ k \notin DOMAIN rooms
        THEN [rooms |-> rooms, calls |-> <<>>]
        ELSE LET roomClients == Without(rooms[k], s)
                 rms == IF Len(roomClients) = 0
                        THEN MapDel(rooms, k)
                        ELSE [rooms EXCEPT ![k] = roomClients]
             IN  [rooms |-> rms,
                  calls |-> <<broadcastToRoom(rms, k,
                                JObj([type |-> JStr("client_left"),
                                      clientId |-> ws[s]._clientId]), 0)>>]

\* The frames a sequence of broadcastToRoom calls wrote, in order.
RECURSIVE Outs(_)
Outs(calls) == IF calls = <<>> THEN <<>> ELSE Head(calls).out \o Outs(Tail(calls))

Threw(calls) == \E i \in 1..Len(calls) : calls[i].threw

\* --------------------------------------------------------------- admission

ServerName == JStr("My Server")

\* An admission test that forgets the allow-list.
AdmitsAnyRoom(roomId) == Truthy(roomId)

\* The admission test of the connection handler.
Admits(roomId) == Truthy(roomId) /\ Key(roomId) \in validRooms

\* A lookup that goes to the cache without asking the session.
avatarFromCache(member, roomId) ==
    LET key == AvatarKey(roomId, member._clientId)
    IN  IF key \in DOMAIN avatarCache THEN JStr(avatarCache[key]) ELSE JNull

\* member._avatar || avatarCache.get(`${roomId}__${member._clientId}`) || null
avatarData(member, roomId) ==
    LET key == AvatarKey(roomId, member._clientId)
        cached == IF key \in DOMAIN avatarCache
                  THEN JStr(avatarCache[key]) ELSE JUndef
    IN  JOr(JOr(member._avatar, cached), JNull)

\* The loop that tells the new socket s about the members already there.
RECURSIVE Announce(_, _, _, _, _)
Announce(members, i, s, roomId, acc) ==
    IF i > Len(members) THEN acc
    ELSE LET member == members[i] IN
         IF member = s THEN Announce(members, i + 1, s, roomId, acc)
         ELSE LET avatar == avatarData(acc.ws[member], roomId)
                  w == IF Truthy(avatar) /\ ~Truthy(acc.ws[member]._avatar)
                       THEN [acc.ws EXCEPT ![member]._avatar = avatar]
                       ELSE acc.ws
              IN  Announce(members, i + 1, s, roomId,
                      [ws |-> w,
                       out |-> acc.out \o
                               Send(s, OPEN,
                                    JObj([type |-> JStr("client_joined"),
                                          clientId |-> w[member]._clientId,
                                          avatar |-> avatar]))])

\* A test that takes every path but null.
PathNotNull(state) == state.path # JNull

\* The test of the state bootstrap: if (state.path).
HasPath(state) == Truthy(state.path)

\* A join that reads the room's state without filing it.
joinLeavesStore(rs, roomId) == rs

\* A join that starts the room's state afresh.
joinResetsState(rs, roomId) == MapSet(rs, roomId, NewRoomState)

\* The store after the join's getRoomState(roomId).
joinState(rs, roomId) == EnsureState(rs, roomId)

NewSocket ==
    [phase |-> "new", readyState |-> 0, listening |-> FALSE, closeCode |-> 0,
     room |-> JUndef, cid |-> JUndef,
     _roomId |-> JUndef, _clientId |-> JUndef, _avatar |-> JUndef,
     closeEmitted |-> FALSE, errorEmitted |-> FALSE, cleanups |-> 0]

\* wss.on("connection"): socket s opens with the query parameters room and
\* clientId (null when the parameter is absent).
Connect(s, roomParam, clientParam) ==
    /\ ws[s].phase = "new"
    /\ \A c \in Conns : c < s => ws[c].phase # "new"
    /\ LET roomId == roomParam
           clientId == JOr(clientParam, JStr("client_" \o ToString(now)))
           opened == [ws[s] EXCEPT !.readyState = OPEN, !.room = roomId,
                                   !.cid = clientId]
           frame == [kind |-> "open", room |-> roomParam, clientId |-> clientParam]
       IN  IF ~Admits(roomId)
           THEN /\ ws' = [ws EXCEPT ![s] = [opened EXCEPT !.phase = "rejected",
                                                         !.readyState = CLOSING,
                                                         !.closeCode = 4001]]
                /\ last' = Log("connect", s, frame, TRUE, <<>>, <<>>, FALSE)
                /\ UNCHANGED <<rooms, roomState, avatarCache>>
           ELSE LET k == Key(roomId)
                    w1 == [ws EXCEPT ![s] = [opened EXCEPT !.phase = "admitted",
                                                          !._roomId = roomId,
                                                          !._clientId = clientId,
                                                          !._avatar = JNull]]
                    rms == AddClient(rooms, k, s)
                    joined == broadcastToRoom(rms, k,
                                  JObj([type |-> JStr("client_joined"),
                                        clientId |-> clientId]), s)
                    info == Send(s, OPEN, JObj([type |-> JStr("server_info"),
                                                name |-> JOr(ServerName, JNull)]))
                    told == Announce(rms[k], 1, s, roomId, [ws |-> w1, out |-> <<>>])
                    rs == joinState(roomState, k)
                    state == getRoomState(roomState, k)
                    boot == IF HasPath(state)
                            THEN Send(s, OPEN, StateSync(state, JStr("server")))
                            ELSE <<>>
                IN  \E jn \in {joined}, tl \in {told} :
                    /\ rooms' = rms
                    /\ IF jn.threw
                       THEN /\ ws' = w1
                            /\ UNCHANGED roomState
                            /\ last' = Log("connect", s, frame, TRUE, jn.out,
                                           <<jn>>, TRUE)
                       ELSE /\ ws' = [tl.ws EXCEPT ![s].listening = TRUE]
                            /\ roomState' = rs
                            /\ last' = Log("connect", s, frame, TRUE,
                                           jn.out \o info \o tl.out \o boot,
                                           <<jn>>, FALSE)
                    /\ UNCHANGED avatarCache
    /\ UNCHANGED <<now, nextBeat, validRooms, pending, sharp, brokenSend>>

\* ------------------------------------------------------ close and error

\* The "close" event of socket s: the socket is closed, and the handler, if
\* one was registered, runs cleanupClient.
Close(s) ==
    /\ ws[s].phase # "new"
    /\ ~ws[s].closeEmitted
    /\ \E done \in {IF ws[s].listening THEN cleanupClient(s)
                      ELSE [rooms |-> rooms, calls |-> <<>>]} :
           /\ rooms' = done.rooms
           /\ ws' = [ws EXCEPT ![s].readyState = CLOSED,
                               ![s].closeEmitted = TRUE,
                               ![s].cleanups = IF ws[s].listening THEN @ + 1 ELSE @]
           /\ last' = Log("close", s, NoFrame, ws[s].listening, Outs(done.calls),
                          done.calls, Threw(done.calls))
    /\ UNCHANGED <<now, nextBeat, validRooms, roomState, avatarCache, pending,
                   sharp, brokenSend>>

\* The "error" event of socket s; the socket is closing from then on.
Error(s) ==
    /\ ws[s].phase # "new"
    /\ ~ws[s].errorEmitted
    /\ \E done \in {IF ws[s].listening THEN cleanupClient(s)
                      ELSE [rooms |-> rooms, calls |-> <<>>]} :
           /\ rooms' = done.rooms
           /\ ws' = [ws EXCEPT ![s].readyState = IF @ = CLOSED THEN @ ELSE CLOSING,
                               ![s].errorEmitted = TRUE,
                               ![s].cleanups = IF ws[s].listening THEN @ + 1 ELSE @]
           /\ last' = Log("error", s, NoFrame, ws[s].listening, Outs(done.calls),
                          done.calls, Threw(done.calls))
    /\ UNCHANGED <<now, nextBeat, validRooms, roomState, avatarCache, pending,
                   sharp, brokenSend>>

\* The peer starts the closing handshake: the socket is CLOSING until its
\* "close" event; no handler runs.
Closing(s) ==
    /\ ws[s].phase = "admitted"
    /\ ws[s].readyState = OPEN
    /\ ws' = [ws EXCEPT ![s].readyState = CLOSING]
    /\ last' = Log("closing", s, NoFrame, FALSE, <<>>, <<>>, FALSE)
    /\ UNCHANGED <<now, nextBeat, validRooms, rooms, roomState, avatarCache,
                   pending, sharp, brokenSend>>

\* ------------------------------------------------- external collaborators

\* JSON.parse on the texts this model sends that are not JSON objects: the
\* value, or a SyntaxError (ok = FALSE).
JSONParse(raw) ==
    CASE raw = "null" -> [ok |-> TRUE, val |-> JNull]
      [] raw = "true" -> [ok |-> TRUE, val |-> JBool(TRUE)]
      [] raw = "5" -> [ok |-> TRUE, val |-> JNum(5)]
      [] raw = "\"q\"" -> [ok |-> TRUE, val |-> JStr("q")]
      [] OTHER -> [ok |-> FALSE, val |-> JUndef]

\* parseFloat: a number is itself, a string is read by its numeric prefix,
\* everything else is NaN.  (Positions are in thousandths.)
parseFloat(v) ==
    CASE v[1] = "number" -> v
      [] v[1] = "string" ->
           (CASE v[2] = "42.5" -> JNum(42500)
              [] v[2] = "7s" -> JNum(7000)
              [] OTHER -> JNaN)
      [] OTHER -> JNaN

\* The images sharp can decode, and what processAvatar makes of one.
Images == {"img1", "img2"}
Base64(bytes) == "webp:" \o bytes

\* processAvatar when sharp is taken to be there.
processAvatarAnyway(buffer) ==
    IF buffer \in Images THEN [ok |-> TRUE, val |-> buffer]
    ELSE [ok |-> FALSE, val |-> "unsupported image format"]

\* processAvatar(buffer): resolves with the re-encoded image or rejects.
processAvatar(buffer) ==
    IF ~sharp THEN [ok |-> FALSE, val |-> "sharp not installed"]
    ELSE IF buffer \in Images THEN [ok |-> TRUE, val |-> buffer]
    ELSE [ok |-> FALSE, val |-> "unsupported image format"]

\* fetchUrl(url): what the remote hosts of this model answer.
fetchUrl(url) ==
    CASE url = "http://h/img1" -> [ok |-> TRUE, val |-> "img1"]
      [] url = "https://h/img2" -> [ok |-> TRUE, val |-> "img2"]
      [] url = "http://h/junk" -> [ok |-> TRUE, val |-> "junk"]
      [] OTHER -> [ok |-> FALSE, val |-> "HTTP 404"]

\* ---------------------------------------------------------- the router

ErrorMsg(text) == JObj([type |-> JStr("error"), message |-> JStr(text)])

\* What a step of a handler leaves behind.
Outcome(rs, w, cache, pend, sent, calls, threw) ==
    [roomState |-> rs, ws |-> w, avatarCache |-> cache, pending |-> pend,
     sent |-> sent, calls |-> calls, threw |-> threw]

Same == Outcome(roomState, ws, avatarCache, pending, <<>>, <<>>, FALSE)

\* The outcome of a step that ends with one broadcastToRoom call.
Called(rs, w, cache, call) ==
    Outcome(rs, w, cache, pending, call.out, <<call>>, call.threw)

\* ws.send(JSON.stringify(obj)) to the handler's own socket, as the last
\* thing a step does.
Reply(out, s, obj) ==
    IF s \in brokenSend
    THEN [out EXCEPT !.threw = TRUE]
    ELSE [out EXCEPT !.sent = @ \o Send(s, ws[s].readyState, obj)]

\* The text decode: JSON.parse of the trimmed text, or the navigate fallback.
Decode(frame) ==
    IF frame.kind = "json" THEN JObj(frame.obj)
    ELSE LET raw == Trim(frame.text)
             parsed == JSONParse(raw)
         IN  IF parsed.ok THEN parsed.val
             ELSE JObj([type |-> JStr("navigate"), path |-> JStr(raw)])

\* wantPlay of the playstate branch; threw when href.includes is not a
\* function (href is truthy and not a string).
WantPlay(href) ==
    IF ~Truthy(href) THEN [threw |-> FALSE, val |-> href]
    ELSE IF ~IsStr(href) THEN [threw |-> TRUE, val |-> JUndef]
    ELSE [threw |-> FALSE,
          val |-> JBool(Includes(href[2], "pause") \/ Includes(href[2], "Pause"))]

\* A state mutation followed by broadcastStateSync(roomId, clientId).
Mutate(rs, k, st, clientId) ==
    LET rs2 == MapSet(rs, k, st)
    IN  Called(rs2, ws, avatarCache, broadcastStateSync(rooms, rs2, k, clientId))

\* A roomId check that lets everything through.
NeverMismatch(msg, roomId) == FALSE

\* The roomId check: the message names a room other than the session's.
Mismatch(msg, roomId) ==
    Truthy(Get(msg, "roomId")) /\ Get(msg, "roomId") # roomId

\* The handler of a text frame, after the decode.
Route(s, msg0) ==
    LET roomId == ws[s].room
        clientId == ws[s].cid
        k == Key(roomId)
    IN  IF msg0 = JNull \/ msg0 = JUndef
        THEN [Same EXCEPT !.threw = TRUE]
        ELSE IF Mismatch(msg0, roomId)
        THEN Reply(Same, s, ErrorMsg("roomId mismatch"))
        ELSE LET msg == Put(msg0, "clientId", clientId)
                 type == Get(msg, "type")
                 rs == EnsureState(roomState, k)
                 st == rs[k]
             IN
             IF type = JStr("avatar_url")
             THEN LET url == Get(msg, "url") IN
                  IF ~Truthy(url) \/ ~IsStr(url) \/ ~StartsWith(url[2], "http")
                  THEN Reply(Same, s, ErrorMsg("Invalid avatar URL"))
                  ELSE [Same EXCEPT !.pending =
                            Append(pending, [conn |-> s, kind |-> "avatar_url",
                                             await |-> "fetchUrl", arg |-> url[2]])]
             ELSE IF type = JStr("navigate")
             THEN Mutate(rs, k,
                         [snapshotPosition(st) EXCEPT !.path = Get(msg, "path"),
                                                      !.position = JNum(0),
                                                      !.positionSetAt = now,
                                                      !.playing = JBool(TRUE)],
                         clientId)
             ELSE IF type = JStr("playstate")
             THEN LET wantPlay == WantPlay(Get(msg, "href")) IN
                  IF wantPlay.threw
                  THEN [Same EXCEPT !.roomState = rs, !.threw = TRUE]
                  ELSE Mutate(rs, k,
                              IF st.playing # wantPlay.val
                              THEN [snapshotPosition(st) EXCEPT !.playing = wantPlay.val]
                              ELSE st,
                              clientId)
             ELSE IF type = JStr("seek")
             THEN Mutate(rs, k,
                         [st EXCEPT !.position = JOr(parseFloat(Get(msg, "position")), JNum(0)),
                                    !.positionSetAt = now],
                         clientId)
             ELSE IF type = JStr("timeline") /\ Truthy(Get(msg, "seek"))
             THEN Mutate(rs, k,
                         [st EXCEPT !.position = JOr(parseFloat(Get(msg, "value")), JNum(0)),
                                    !.positionSetAt = now],
                         clientId)
             ELSE Called(rs, ws, avatarCache, broadcastToRoom(rooms, k, msg, s))

\* ws.on("message") up to its first await.
OnMessage(s, frame) ==
    IF frame.kind = "binary"
    THEN [Same EXCEPT !.pending =
              Append(pending, [conn |-> s, kind |-> "binary",
                               await |-> "processAvatar", arg |-> frame.bytes])]
    ELSE Route(s, Decode(frame))

\* The catch of an avatar upload.
AvatarFailed(out, s, text) == Reply(out, s, ErrorMsg(text))

\* An upload that takes the image and tells only its sender.
AvatarDoneQuietly(s, kind, processed) ==
    LET b64 == Base64(processed)
        w == [ws EXCEPT ![s]._avatar = JStr(b64)]
        cache == MapSet(avatarCache, AvatarKey(ws[s].room, ws[s].cid), b64)
    IN  Reply(Outcome(roomState, w, cache, pending, <<>>, <<>>, FALSE), s,
              JObj([type |-> JStr("avatar"), clientId |-> ws[s].cid,
                    data |-> JStr(b64)]))

\* The rest of an avatar upload once processAvatar has resolved with
\* processed: the session and the cache take the image, the room is told,
\* the sender is told; a throw in there lands in the catch.
AvatarDone(s, kind, processed) ==
    LET roomId == ws[s].room
        clientId == ws[s].cid
        b64 == Base64(processed)
        w == [ws EXCEPT ![s]._avatar = JStr(b64)]
        cache == MapSet(avatarCache, AvatarKey(roomId, clientId), b64)
        event == JObj([type |-> JStr("avatar"), clientId |-> clientId,
                       data |-> JStr(b64)])
        told == Called(roomState, w, cache,
                       broadcastToRoom(rooms, Key(roomId), event, s))
        prefix == IF kind = "binary" THEN "Avatar error: "
                  ELSE "Failed to fetch avatar: "
    IN  IF told.threw \/ s \in brokenSend
        THEN AvatarFailed([told EXCEPT !.threw = FALSE], s, prefix \o "send failed")
        ELSE Reply(told, s, event)

\* An upload suspended at an await goes on when the promise settles; rest
\* is the other uploads in flight.
OnSettled(task, rest) ==
    LET s == task.conn
        prefix == IF task.kind = "binary" THEN "Avatar error: "
                  ELSE "Failed to fetch avatar: "
    IN  IF task.await = "fetchUrl"
        THEN LET rawBuf == fetchUrl(task.arg) IN
             IF rawBuf.ok
             THEN [Same EXCEPT !.pending =
                       Append(rest, [task EXCEPT !.await = "processAvatar",
                                                 !.arg = rawBuf.val])]
             ELSE [AvatarFailed(Same, s, prefix \o rawBuf.val) EXCEPT !.pending = rest]
        ELSE LET processed == processAvatar(task.arg) IN
             IF processed.ok
             THEN [AvatarDone(s, task.kind, processed.val) EXCEPT !.pending = rest]
             ELSE [AvatarFailed(Same, s, prefix \o processed.val) EXCEPT !.pending = rest]

\* ------------------------------------------------------------- heartbeat

\* A skip test that only knows null.
PathIsNull(state) == state.path = JNull

\* The heartbeat's test for a room that plays nothing.
\* A skip test that finds no room worth a heartbeat.
NoPathEver(state) == TRUE

NoPath(state) == ~Truthy(state.path)

\* The body of the interval callback over the rooms still to visit.
RECURSIVE Beat(_, _, _)
Beat(todo, rs, calls) ==
    IF todo = {} \/ Threw(calls) THEN [roomState |-> rs, calls |-> calls]
    ELSE LET roomId == CHOOSE k \in todo : TRUE
             rest == todo \ {roomId}
         IN  IF Len(rooms[roomId]) = 0 THEN Beat(rest, rs, calls)
             ELSE LET rs2 == EnsureState(rs, roomId) IN
                  IF NoPath(rs2[roomId]) THEN Beat(rest, rs2, calls)
                  ELSE Beat(rest, rs2,
                            Append(calls, broadcastStateSync(rooms, rs2, roomId,
                                                             JStr("heartbeat"))))

\* ----------------------------------------------------------------- actions

\* The "message" event of socket s.  Frames arrive while the socket is
\* open; the handler, if one was registered, runs to its end or to its
\* first await.
Message(s, frame) ==
    /\ \/ ws[s].phase = "admitted" /\ ws[s].readyState = OPEN
       \/ ws[s].phase = "rejected" /\ ~ws[s].closeEmitted
    /\ frame.kind = "binary" \/ (frame.kind = "json" /\ "type" \in DOMAIN frame.obj
                                 /\ frame.obj.type = JStr("avatar_url"))
          => Len(pending) < MaxPending
    /\ \E out \in {IF ws[s].listening THEN OnMessage(s, frame) ELSE Same} :
           /\ roomState' = out.roomState
           /\ ws' = out.ws
           /\ avatarCache' = out.avatarCache
           /\ pending' = out.pending
           /\ last' = Log("message", s, frame, ws[s].listening, out.sent,
                          out.calls, out.threw)
    /\ UNCHANGED <<now, nextBeat, validRooms, rooms, sharp, brokenSend>>

\* fs.promises.writeFile(...).catch(warn) of an upload: started when the
\* image has been processed, it ends written or failed some time later,
\* and either way nothing but the console hears of it.
writeFile(task) ==
    IF task.await = "processAvatar" /\ processAvatar(task.arg).ok
    THEN {"written", "failed"}
    ELSE {"none"}

\* The promise the i-th suspended upload awaits settles.
Settle(i) ==
    /\ i \in 1..Len(pending)
    /\ LET task == pending[i]
           rest == SubSeq(pending, 1, i - 1) \o SubSeq(pending, i + 1, Len(pending))
       IN  \E out \in {OnSettled(task, rest)}, write \in writeFile(task) :
           /\ roomState' = out.roomState
           /\ ws' = out.ws
           /\ avatarCache' = out.avatarCache
           /\ pending' = out.pending
           /\ last' = Log("settle", task.conn,
                          [kind |-> "task", task |-> task, write |-> write],
                          TRUE, out.sent, out.calls, out.threw)
    /\ UNCHANGED <<now, nextBeat, validRooms, rooms, sharp, brokenSend>>

\* The interval callback.
Heartbeat ==
    /\ now >= nextBeat
    /\ nextBeat' = now + SYNC_INTERVAL_MS
    /\ \E out \in {Beat(DOMAIN rooms, roomState, <<>>)} :
           /\ roomState' = out.roomState
           /\ last' = Log("heartbeat", 0, NoFrame, TRUE, Outs(out.calls),
                          out.calls, Threw(out.calls))
    /\ UNCHANGED <<now, validRooms, rooms, avatarCache, ws, pending, sharp,
                   brokenSend>>

\* The console line "<roomId> <path>".
Admin(roomId, newPath) ==
    /\ IF roomId \notin validRooms
       THEN /\ UNCHANGED roomState
            /\ last' = Log("admin", 0, [kind |-> "line", room |-> roomId,
                                       path |-> newPath],
                           TRUE, <<>>, <<>>, FALSE)
       ELSE LET rs == EnsureState(roomState, roomId)
                st == [rs[roomId] EXCEPT !.path = JStr(newPath),
                                         !.position = JNum(0),
                                         !.positionSetAt = now,
                                         !.playing = JBool(TRUE)]
                rs2 == MapSet(rs, roomId, st)
                call == broadcastStateSync(rooms, rs2, roomId, JStr("server-admin"))
            IN  \E cl \in {call} :
                /\ roomState' = rs2
                /\ last' = Log("admin", 0, [kind |-> "line", room |-> roomId,
                                           path |-> newPath],
                               TRUE, cl.out, <<cl>>, cl.threw)
    /\ UNCHANGED <<now, nextBeat, validRooms, rooms, avatarCache, ws, pending,
                   sharp, brokenSend>>

\* rooms.txt changes and is read again.
Reload(list) ==
    /\ validRooms # list
    /\ validRooms' = list
    /\ last' = Log("reload", 0, NoFrame, TRUE, <<>>, <<>>, FALSE)
    /\ UNCHANGED <<now, nextBeat, rooms, roomState, avatarCache, ws, pending,
                   sharp, brokenSend>>

\* The clock moves on.
Tick ==
    /\ now < MaxTicks * TickMs
    /\ now' = now + TickMs
    /\ last' = Log("tick", 0, NoFrame, FALSE, <<>>, <<>>, FALSE)
    /\ UNCHANGED <<nextBeat, validRooms, rooms, roomState, avatarCache, ws,
                   pending, sharp, brokenSend>>

\* From here on send() on socket s throws.
BreakSend(s) ==
    /\ ws[s].phase = "admitted"
    /\ ws[s].listening
    /\ s \notin brokenSend
    /\ brokenSend' = brokenSend \cup {s}
    /\ last' = Log("break", s, NoFrame, FALSE, <<>>, <<>>, FALSE)
    /\ UNCHANGED <<now, nextBeat, validRooms, rooms, roomState, avatarCache,
                   ws, pending, sharp>>

\* ------------------------------------------------------------------ inputs

RoomParams == {JNull, JStr("x"), JStr("y"), JStr("nonexistent")}

\* The clientId parameter connection s comes with: the first two name
\* themselves, the others leave it to the server.
ClientOf(s) == IF s = 1 THEN JStr("A") ELSE IF s = 2 THEN JStr("B") ELSE JNull
RoomLists == {{"x", "y"}, {"x"}}

Json(o) == [kind |-> "json", obj |-> o]
Text(t) == [kind |-> "text", text |-> t]
Binary(b) == [kind |-> "binary", bytes |-> b]

NavigateFrames ==
    { Json([type |-> JStr("navigate"), path |-> JStr("track1")]),
      Json([type |-> JStr("navigate"), path |-> JStr("")]),
      Json([type |-> JStr("navigate")]) }

PlaystateFrames ==
    { Json([type |-> JStr("playstate"), href |-> JStr(h)]) :
        h \in {"btn-pause", "btn-Pause", "btn-PAUSE", "btn-play", ""} }
    \cup { Json([type |-> JStr("playstate")]) }

OddFrames == { Json([type |-> JStr("playstate"), href |-> JNum(5)]) }

SeekFrames ==
    { Json([type |-> JStr("seek"), position |-> p]) :
        p \in {JNum(42500), JStr("42.5"), JStr("abc")} }
    \cup { Json([type |-> JStr("seek")]),
           Json([type |-> JStr("timeline"), seek |-> JBool(TRUE), value |-> JNum(42500)]),
           Json([type |-> JStr("timeline"), seek |-> JBool(TRUE), value |-> JStr("abc")]) }

RelayFrames ==
    { Json([type |-> JStr("timeline"), value |-> JNum(1000)]),
      Json([type |-> JStr("chat"), clientId |-> JStr("spoof")]),
      Json([text |-> JStr("hi")]) }

MismatchFrames ==
    { Json([type |-> JStr("navigate"), path |-> JStr("track1"), roomId |-> JStr("y")]),
      Json([type |-> JStr("avatar_url"), url |-> JStr("http://h/img1"),
            roomId |-> JStr("y")]),
      Json([type |-> JStr("seek"), position |-> JNum(42500), roomId |-> JNum(5)]),
      Json([type |-> JStr("chat"), roomId |-> JStr("y")]),
      Json([type |-> JStr("chat"), roomId |-> JStr("x")]) }

BareFrames == { Text(" track2 "), Text(""), Text("null"), Text("5"), Text("\"q\"") }

AvatarFrames ==
    { Binary("img1"), Binary("junk") }
    \cup { Json([type |-> JStr("avatar_url"), url |-> u]) :
             u \in {JStr("http://h/img1"), JStr("http://h/junk"),
                    JStr("http://h/404"), JStr("ftp://h/img1"), JNum(5)} }
    \cup { Json([type |-> JStr("avatar_url")]) }

AdminPaths == {"track2", ""}

\* ----------------------------------------------------------- specification

\* Start-up: no room, no state, no connection yet.
Start(sharps) ==
    /\ now = 0
    /\ nextBeat = SYNC_INTERVAL_MS
    /\ validRooms = {"x", "y"}
    /\ rooms = << >>
    /\ roomState = << >>
    /\ avatarCache = << >>
    /\ ws = [c \in Conns |-> NewSocket]
    /\ pending = <<>>
    /\ sharp \in sharps
    /\ brokenSend = {}
    /\ last = Log("init", 0, NoFrame, FALSE, <<>>, <<>>, FALSE)

\* The connections of the specifications that follow one room closely.
FewConns == 1..(MaxConns - 1)

Chat == Json([type |-> JStr("chat"), clientId |-> JStr("spoof")])
Navigate1 == Json([type |-> JStr("navigate"), path |-> JStr("track1")])
ShowsPlay == Json([type |-> JStr("playstate"), href |-> JStr("btn-play")])

\* Spec: connections coming and going in two rooms, relaying a message.
Init == Start({TRUE})

Next ==
    \/ \E s \in Conns, r \in RoomParams : Connect(s, r, ClientOf(s))
    \/ \E s \in Conns : Message(s, Chat)
    \/ \E s \in Conns : Closing(s)
    \/ \E s \in Conns : Close(s)
    \/ \E s \in Conns : Error(s)

Spec == Init /\ [][Next]_vars

\* SpecAdmission: admission under an allow-list that is reloaded.
NextAdmission ==
    \/ \E s \in FewConns, r \in RoomParams : Connect(s, r, ClientOf(s))
    \/ \E s \in FewConns : Message(s, Navigate1)
    \/ \E s \in FewConns : Close(s)
    \/ \E s \in FewConns : Error(s)
    \/ \E l \in RoomLists : Reload(l)

SpecAdmission == Init /\ [][NextAdmission]_vars

\* SpecSendFail: one room whose sockets' send() may start to throw.
NextSendFail ==
    \/ \E s \in Conns : Connect(s, JStr("x"), ClientOf(s))
    \/ \E s \in Conns, f \in {Chat, Navigate1} : Message(s, f)
    \/ \E s \in Conns : Close(s)
    \/ \E s \in Conns : BreakSend(s)
    \/ Heartbeat
    \/ Tick

SpecSendFail == Init /\ [][NextSendFail]_vars

\* SpecSeek: seeking in one room over time.
NextSeek ==
    \/ \E s \in FewConns : Connect(s, JStr("x"), ClientOf(s))
    \/ \E s \in FewConns, f \in SeekFrames \cup {Navigate1, ShowsPlay} : Message(s, f)
    \/ \E s \in FewConns : Closing(s)
    \/ Heartbeat
    \/ Tick

SpecSeek == Init /\ [][NextSeek]_vars

\* SpecPlayback: navigate and playstate in one room over time.
NextPlayback ==
    \/ \E s \in FewConns : Connect(s, JStr("x"), ClientOf(s))
    \/ \E s \in FewConns, f \in NavigateFrames \cup PlaystateFrames : Message(s, f)
    \/ \E s \in FewConns : Closing(s)
    \/ Tick

SpecPlayback == Init /\ [][NextPlayback]_vars

\* SpecHeartbeat: the interval callback over two rooms.
NextHeartbeat ==
    \/ \E s \in FewConns, r \in {JStr("x"), JStr("y")} : Connect(s, r, ClientOf(s))
    \/ \E s \in FewConns, f \in NavigateFrames : Message(s, f)
    \/ \E s \in FewConns : Close(s)
    \/ Heartbeat
    \/ Tick

SpecHeartbeat == Init /\ [][NextHeartbeat]_vars

\* SpecCatchUp: navigation in one room while the clock runs and the
\* interval timer fires; the clock does not stop and a due timer fires.
NextCatchUp ==
    \/ \E s \in FewConns : Connect(s, JStr("x"), ClientOf(s))
    \/ \E s \in FewConns, f \in NavigateFrames : Message(s, f)
    \/ \E s \in FewConns : Closing(s)
    \/ Heartbeat
    \/ Tick

SpecCatchUp ==
    Init /\ [][NextCatchUp]_vars /\ WF_vars(Heartbeat) /\ WF_vars(Tick)

\* SpecReconnect: clients that come back under the client identifier they
\* had, once no member of the room goes by it.
ReconnectClient(s) == IF s = 2 THEN JStr("B") ELSE JStr("A")

IdFree(clientId) ==
    \A k \in DOMAIN rooms : \A i \in 1..Len(rooms[k]) :
        ws[rooms[k][i]]._clientId # clientId

NextReconnect ==
    \/ \E s \in Conns : /\ IdFree(ReconnectClient(s))
                         /\ Connect(s, JStr("x"), ReconnectClient(s))
    \/ \E s \in Conns : Message(s, Chat)
    \/ \E s \in Conns : Close(s)
    \/ \E s \in Conns : Error(s)

SpecReconnect == Init /\ [][NextReconnect]_vars

\* SpecRooms: two rooms side by side, with every kind of event in each;
\* the connections go to the two rooms in turn.
RoomOf(s) == IF s % 2 = 1 THEN JStr("x") ELSE JStr("y")
RoomsFrames == {Chat, Navigate1, Binary("img1")}

NextRooms ==
    \/ \E s \in FewConns : Connect(s, RoomOf(s), ClientOf(s))
    \/ \E s \in FewConns, f \in RoomsFrames : Message(s, f)
    \/ \E i \in 1..MaxPending : Settle(i)
    \/ \E s \in FewConns : Close(s)
    \/ \E s \in FewConns : Error(s)

SpecRooms == Init /\ [][NextRooms]_vars

\* SpecAvatar: avatar uploads, with and without sharp.
InitAvatar == Start(BOOLEAN)

NextAvatar ==
    \/ \E s \in FewConns : Connect(s, JStr("x"), ClientOf(s))
    \/ \E s \in FewConns, f \in AvatarFrames \cup {Chat} : Message(s, f)
    \/ \E i \in 1..MaxPending : Settle(i)
    \/ \E s \in FewConns : Closing(s)
    \/ \E s \in FewConns : Close(s)

SpecAvatar == InitAvatar /\ [][NextAvatar]_vars

\* SpecJoin: sessions that upload avatars and are joined by others; the
\* first two come under one client identifier.
JoinClient(s) == IF s <= 2 THEN JStr("A") ELSE JStr("B")

NextJoin ==
    \/ \E s \in Conns : Connect(s, JStr("x"), JoinClient(s))
    \/ \E s \in Conns, b \in Images : Message(s, Binary(b))
    \/ \E i \in 1..MaxPending : Settle(i)
    \/ \E s \in Conns : Closing(s)

SpecJoin == Init /\ [][NextJoin]_vars

\* SpecRouter: every kind of text frame, in one room.
RouterFrames == BareFrames \cup MismatchFrames \cup RelayFrames \cup NavigateFrames
                \cup PlaystateFrames \cup OddFrames

NextRouter ==
    \/ \E s \in FewConns : Connect(s, JStr("x"), ClientOf(s))
    \/ \E s \in FewConns, f \in RouterFrames : Message(s, f)
    \/ \E s \in FewConns : Close(s)
    \/ \E s \in FewConns : Closing(s)

SpecRouter == Init /\ [][NextRouter]_vars

\* ------------------------------------------------------------------ claims

\* How many of the frames in sent went to connection m.
Delivered(sent, m) == Cardinality({i \in 1..Len(sent) : sent[i].to = m})

\* Connection m is in room k of the registry rms.
Member(rms, m, k) == k \in DOMAIN rms /\ \E j \in 1..Len(rms[k]) : rms[k][j] = m

InRoom(m, k) == Member(rooms, m, k)

\* C1: the second run of the disconnect cleanup for a session (its close
\* and its error handler, in either order) changes no membership, sends no
\* message and does not throw, so client_left goes out at most once.
C1_SecondCleanupChangesNothing ==
    [][ (last'.ev \in {"close", "error"} /\ last'.ran
         /\ ws'[last'.conn].cleanups = 2)
        => (rooms' = rooms /\ last'.sent = <<>> /\ ~last'.threw) ]_vars

\* The room parameter is absent, empty or not on the allow-list.
NotAllowed(roomParam) ==
    roomParam = JNull \/ roomParam = JStr("") \/ roomParam[2] \notin validRooms

\* C2: a connection that opens with a room identifier that is absent or
\* not on the allow-list is closed with code 4001 and nothing else happens:
\* registry, playback store and avatar cache stay as they were, nothing is
\* sent, and no message, close or error handler ever runs for it.
C2_RejectedConnection ==
    [][ /\ (last'.ev = "connect" /\ NotAllowed(last'.frame.room))
            => /\ ws'[last'.conn].closeCode = 4001
               /\ ws'[last'.conn].readyState # OPEN
               /\ ~ws'[last'.conn].listening
               /\ last'.sent = <<>>
               /\ <<rooms', roomState', avatarCache'>> = <<rooms, roomState, avatarCache>>
        /\ (last'.ev \in {"message", "close", "error"}
            /\ ws[last'.conn].closeCode = 4001)
            => /\ ~last'.ran
               /\ last'.sent = <<>>
               /\ <<rooms', roomState', avatarCache'>> = <<rooms, roomState, avatarCache>>
      ]_vars

\* A frame arrives on a connection that asked for room y after y was taken
\* off the allow-list, while room x has a member.
C2_Witness ==
    /\ last.ev = "message"
    /\ ws[last.conn].closeCode = 4001
    /\ ws[last.conn].room = JStr("y")
    /\ "x" \in DOMAIN rooms

\* C3: a broadcast writes the event exactly once to each member of the room
\* that is not the excluded one and whose socket is open, to nobody else,
\* and returns the number of frames written; it writes nothing and returns
\* 0 when the room is unknown or empty.
C3_BroadcastDelivery ==
    \A i \in 1..Len(last.calls) :
        LET call == last.calls[i]
            eligible == {m \in Conns : /\ InRoom(m, call.room)
                                       /\ m # call.exclude
                                       /\ ws[m].readyState = OPEN}
        IN  /\ \A m \in Conns :
                   Delivered(call.out, m) = IF m \in eligible THEN 1 ELSE 0
            /\ \A j \in 1..Len(call.out) :
                   /\ call.out[j].to \in Conns
                   /\ Key(ws[call.out[j].to]._roomId) = call.room
            /\ call.ret = Len(call.out)
            /\ ~call.threw
            /\ (call.room \notin DOMAIN rooms) => (call.ret = 0 /\ call.out = <<>>)

\* A member relays to a room of three of which one is closing, and exactly
\* one frame is written.
C3_Witness ==
    /\ last.ev = "message"
    /\ Len(last.calls) = 1
    /\ Len(last.calls[1].members) = 3
    /\ last.calls[1].exclude = last.conn
    /\ \E m \in Conns : InRoom(m, last.calls[1].room) /\ ws[m].readyState = CLOSING
    /\ last.calls[1].ret = 1

\* C4: when the send to one member of a broadcast throws, every other
\* eligible member still gets the event, the handler that broadcast does
\* not see the failure, and the failing connection stays open and in the
\* room.
C4_SendFailureIsolated ==
    /\ ~last.threw
    /\ \A i \in 1..Len(last.calls) :
           LET call == last.calls[i] IN
           \A m \in Conns :
               /\ (InRoom(m, call.room) /\ m # call.exclude
                   /\ ws[m].readyState = OPEN /\ m \notin brokenSend)
                  => Delivered(call.out, m) = 1
               /\ (\E j \in 1..Len(call.members) : call.members[j] = m)
                  => (InRoom(m, call.room) /\ ws[m].readyState = OPEN)

\* The playback claims speak of the state_sync a room's state gives at
\* time t, and of the position in effect then.
Effective(st, t) ==
    IF st.playing = JBool(TRUE)
    THEN JNum(st.position[2] + (t - st.positionSetAt))
    ELSE st.position

Sync(path, playing, position, t, by) ==
    Stringify(JObj([type |-> JStr("state_sync"), path |-> path,
                    playing |-> playing, position |-> position,
                    serverTime |-> JNum(t), by |-> by]))

\* sent is data, once, to every open member of room k and nothing else.
ToAllOpen(sent, rms, w, k, data) ==
    /\ \A m \in Conns :
           Delivered(sent, m) = IF Member(rms, m, k) /\ w[m].readyState = OPEN
                                THEN 1 ELSE 0
    /\ \A j \in 1..Len(sent) : sent[j].data = data

Field(frame, f) == IF frame.kind = "json" THEN Get(JObj(frame.obj), f) ELSE JUndef

\* A seek in either spelling, the position it asks for, and the rule every
\* state_sync follows.
IsSeek(frame) ==
    \/ Field(frame, "type") = JStr("seek")
    \/ Field(frame, "type") = JStr("timeline") /\ Field(frame, "seek") = JBool(TRUE)

SeekTarget(frame) ==
    LET v == IF Field(frame, "type") = JStr("seek")
             THEN Field(frame, "position") ELSE Field(frame, "value")
    IN  IF v[1] = "number" THEN v
        ELSE IF v = JStr("42.5") THEN JNum(42500)
        ELSE JNum(0)

SyncsCarryEffective ==
    \A j \in 1..Len(last.sent) :
        LET data == last.sent[j].data
            st == roomState[Key(ws[last.sent[j].to]._roomId)]
        IN  Get(data, "type") = JStr("state_sync")
            => Get(data, "position") = Effective(st, now)

\* C5: a seek (or a timeline message with the seek flag) to p at time t
\* sets the room's position to p as of t, leaves path and playing alone and
\* sends every open member a state_sync with position p by the sender; a
\* position that does not parse counts as 0; and every state_sync carries
\* the stored position plus the time since it was set when the room is
\* playing, the stored position itself when it is not.
C5_SeekSetsPosition ==
    [][ /\ (last'.ev = "message" /\ last'.ran /\ IsSeek(last'.frame))
           => LET s == last'.conn
                  k == Key(ws[s].room)
                  p == SeekTarget(last'.frame)
              IN  /\ roomState'[k].position = p
                  /\ roomState'[k].positionSetAt = now
                  /\ roomState'[k].path = roomState[k].path
                  /\ roomState'[k].playing = roomState[k].playing
                  /\ ~last'.threw
                  /\ ToAllOpen(last'.sent, rooms, ws, k,
                               Sync(roomState[k].path, roomState[k].playing, p,
                                    now, ws[s].cid))
        /\ SyncsCarryEffective'
      ]_vars

\* The heartbeat five seconds after a seek to 42.5 in a playing room
\* carries 47.5.
C5_Witness ==
    /\ last.ev = "heartbeat"
    /\ now = SYNC_INTERVAL_MS
    /\ "x" \in DOMAIN roomState
    /\ roomState["x"].playing = JBool(TRUE)
    /\ roomState["x"].position = JNum(42500)
    /\ roomState["x"].positionSetAt = 0
    /\ Len(last.sent) = 2
    /\ Get(last.sent[2].data, "position") = JNum(47500)

\* C6: a navigate to P at time t leaves the room's state exactly at path P,
\* playing, position 0 as of t, whatever it was, and sends every open
\* member, the sender too, a state_sync of that state by the sender.
C6_NavigateResets ==
    [][ (last'.ev = "message" /\ last'.ran
         /\ Field(last'.frame, "type") = JStr("navigate"))
        => LET s == last'.conn
               k == Key(ws[s].room)
               P == Field(last'.frame, "path")
           IN  /\ roomState'[k] = [path |-> P, playing |-> JBool(TRUE),
                                   position |-> JNum(0), positionSetAt |-> now,
                                   duration |-> roomState[k].duration]
               /\ ~last'.threw
               /\ Delivered(last'.sent, s) = 1
               /\ ToAllOpen(last'.sent, rooms, ws, k,
                            Sync(P, JBool(TRUE), JNum(0), now, ws[s].cid))
      ]_vars

\* B navigates to track1 while the room plays something at a position
\* other than 0, with A in the room: both are told.
C6_Witness ==
    /\ last.ev = "message"
    /\ last.conn = 2
    /\ Field(last.frame, "path") = JStr("track1")
    /\ now > 0
    /\ roomState["x"].positionSetAt = now
    /\ Len(last.sent) = 2

\* A heartbeat that serves exactly the rooms in due and changes nothing.
BeatDelivers(due) ==
    last'.ev = "heartbeat"
    => /\ roomState' = roomState
       /\ rooms' = rooms
       /\ ~last'.threw
       /\ \A m \in Conns :
              Delivered(last'.sent, m) =
                  IF \E k \in due : Member(rooms, m, k) /\ ws[m].readyState = OPEN
                  THEN 1 ELSE 0
       /\ \A j \in 1..Len(last'.sent) :
              LET st == roomState[Key(ws[last'.sent[j].to]._roomId)]
              IN  last'.sent[j].data =
                      Sync(st.path, st.playing, Effective(st, now), now,
                           JStr("heartbeat"))

\* C7, as stated: at a heartbeat every room with a member
\* and a path other than null (the empty string too) gets one state_sync by
\* "heartbeat" with its path, playing flag and effective position, to all
\* its open members; no other room gets anything; state and membership
\* stay as they were.  (A path that a navigate left undefined is read here
\* as null, the reading kindest to the statement.)
C7_NonNullPath ==
    [][ BeatDelivers({k \in DOMAIN rooms :
                        /\ Len(rooms[k]) > 0
                        /\ roomState[k].path \notin {JNull, JUndef}}) ]_vars

\* C7, amended: the rooms that get the heartbeat's state_sync are those
\* with a member and a path that is a non-empty string; a room whose path
\* is null, missing or the empty string gets nothing.
C7_NonEmptyPath ==
    [][ BeatDelivers({k \in DOMAIN rooms :
                        /\ Len(rooms[k]) > 0
                        /\ IsStr(roomState[k].path)
                        /\ roomState[k].path[2] # ""}) ]_vars

\* A heartbeat finds room x on track1 and room y, with a member, on the
\* empty path: one state_sync goes out.
C7_Witness ==
    /\ last.ev = "heartbeat"
    /\ "x" \in DOMAIN rooms /\ "y" \in DOMAIN rooms
    /\ roomState["x"].path = JStr("track1")
    /\ roomState["y"].path = JStr("")
    /\ Len(last.calls) = 1
    /\ Len(last.sent) = 1

\* href contains "pause" in any mix of upper and lower case.
Lower(c) ==
    CASE c = "P" -> "p" [] c = "A" -> "a" [] c = "U" -> "u"
      [] c = "S" -> "s" [] c = "E" -> "e" [] OTHER -> c

RECURSIVE ToLowerCase(_)
ToLowerCase(s) ==
    IF s = "" THEN ""
    ELSE Lower(SubSeq(s, 1, 1)) \o ToLowerCase(SubSeq(s, 2, Len(s)))

SaysPause(href) ==
    /\ IsStr(href)
    /\ LET low == ToLowerCase(href[2])
       IN  \E i \in 1..Len(low) : SubSeq(low, i, i + 4) = "pause"

\* C8: after a playstate message the room is playing exactly when href
\* contains "pause" in any mix of upper and lower case (not when href is
\* missing); position and positionSetAt are snapshotted only when that
\* differs from what the room was doing, and are left alone otherwise; a
\* state_sync by the sender goes to all open members either way.
C8_PlaystateCaseInsensitive ==
    [][ (last'.ev = "message" /\ last'.ran
         /\ Field(last'.frame, "type") = JStr("playstate"))
        => LET s == last'.conn
               k == Key(ws[s].room)
               was == roomState[k]
               is == roomState'[k]
               want == SaysPause(Field(last'.frame, "href"))
           IN  /\ (is.playing = JBool(TRUE)) <=> want
               /\ is.path = was.path
               /\ IF (was.playing = JBool(TRUE)) # want
                  THEN /\ is.position = Effective(was, now)
                       /\ is.positionSetAt = now
                  ELSE /\ is.position = was.position
                       /\ is.positionSetAt = was.positionSetAt
               /\ ~last'.threw
               /\ ToAllOpen(last'.sent, rooms, ws, k,
                            Sync(is.path, is.playing, Effective(is, now), now,
                                 ws[s].cid))
      ]_vars

\* The steps at which an avatar upload fails.
BadUrl(url) == url \in {JUndef, JNum(5), JStr("ftp://h/img1")}

FailsNow(step) ==
    \/ /\ step.ev = "message" /\ step.ran
       /\ Field(step.frame, "type") = JStr("avatar_url")
       /\ BadUrl(Field(step.frame, "url"))
    \/ /\ step.ev = "settle"
       /\ \/ step.frame.task.await = "fetchUrl" /\ step.frame.task.arg = "http://h/404"
          \/ step.frame.task.await = "processAvatar"
             /\ (~sharp \/ step.frame.task.arg = "junk")

\* C9: when an avatar upload fails (the URL is not one, the fetch fails,
\* sharp is missing, the bytes are no image) and the requester's socket is
\* open, the requester alone gets one error message, nobody gets an avatar
\* event, and registry, playback store, sessions (their avatars and their
\* handlers) and avatar cache are as before, so the requester is still a
\* member whose messages are handled.  With the socket no longer open the
\* same holds but for the error, which goes nowhere.
C9_AvatarFailure ==
    [][ FailsNow(last')
        => LET s == last'.conn IN
           /\ ~last'.threw
           /\ last'.calls = <<>>
           /\ IF ws[s].readyState = OPEN
              THEN /\ Len(last'.sent) = 1
                   /\ last'.sent[1].to = s
                   /\ Get(last'.sent[1].data, "type") = JStr("error")
              ELSE last'.sent = <<>>
           /\ <<rooms', roomState', avatarCache', ws'>>
                  = <<rooms, roomState, avatarCache, ws>>
      ]_vars

\* Without sharp, the upload of a good image by a member of a room of two
\* ends in one error message to the uploader.
C9_Witness ==
    /\ last.ev = "settle"
    /\ ~sharp
    /\ last.frame.task.arg = "img1"
    /\ Len(last.sent) = 1
    /\ Get(last.sent[1].data, "type") = JStr("error")
    /\ "x" \in DOMAIN rooms
    /\ Len(rooms["x"]) = 2

\* C10: no text frame makes the message handler throw, and a text that is
\* not a JSON object (invalid JSON, or null, a number, a quoted string) is
\* handled as a navigate to the whole trimmed text.
C10_TextNeverThrows ==
    (last.ev = "message" /\ last.ran /\ last.frame.kind \in {"text", "json"})
    => /\ ~last.threw
       /\ last.frame.kind = "text"
          => LET s == last.conn
                 k == Key(ws[s].room)
                 P == JStr(Trim(last.frame.text))
             IN  /\ roomState[k].path = P
                 /\ roomState[k].playing = JBool(TRUE)
                 /\ roomState[k].position = JNum(0)
                 /\ roomState[k].positionSetAt = now
                 /\ ToAllOpen(last.sent, rooms, ws, k,
                              Sync(P, JBool(TRUE), JNum(0), now, ws[s].cid))

\* C11: a message that names a room other than the one its session is
\* bound to gets its sender exactly one error message and does nothing
\* else, whatever its type: no playback state, no avatar (fetched, held or
\* cached), no membership changes, and nobody else is sent anything.
C11_RoomIdMismatch ==
    [][ (last'.ev = "message" /\ last'.ran /\ last'.frame.kind = "json"
         /\ Field(last'.frame, "roomId") \notin {JUndef, JNull, JStr(""), JNum(0)}
         /\ Field(last'.frame, "roomId") # ws[last'.conn].room)
        => /\ Len(last'.sent) = 1
           /\ last'.sent[1].to = last'.conn
           /\ Get(last'.sent[1].data, "type") = JStr("error")
           /\ last'.calls = <<>>
           /\ ~last'.threw
           /\ <<rooms', roomState', avatarCache', pending', ws'>>
                  = <<rooms, roomState, avatarCache, pending, ws>>
      ]_vars

\* In a room of two that plays track1, a member sends an avatar_url meant
\* for room y and gets the one error message.
C11_Witness ==
    /\ last.ev = "message"
    /\ Field(last.frame, "type") = JStr("avatar_url")
    /\ Field(last.frame, "roomId") = JStr("y")
    /\ Len(rooms["x"]) = 2
    /\ roomState["x"].path = JStr("track1")
    /\ Len(last.sent) = 1
    /\ Get(last.sent[1].data, "type") = JStr("error")

\* The frames of sent that went to connection m, in order.
FramesTo(sent, m) == SelectSeq(sent, LAMBDA f : f.to = m)

\* The client_joined frames among those.
JoinedTo(sent, m) ==
    SelectSeq(sent, LAMBDA f : f.to = m /\ Get(f.data, "type") = JStr("client_joined"))

\* The avatar a newcomer is told of for a member: the session's, else the
\* cache's for the room and the member's clientId, else null.
KnownAvatar(member, roomId) ==
    IF IsStr(member._avatar) /\ member._avatar[2] # "" THEN member._avatar
    ELSE IF (roomId[2] \o "__" \o member._clientId[2]) \in DOMAIN avatarCache
    THEN JStr(avatarCache[roomId[2] \o "__" \o member._clientId[2]])
    ELSE JNull

\* C12: when session s is admitted to room R, every member already there
\* whose socket is open gets exactly one client_joined with s's clientId
\* (and nothing else), s gets no client_joined for itself, and s gets one
\* client_joined per member already there, in the room's order, with the
\* member's clientId and the member's avatar: the session's if set, else
\* the cached one for (R, clientId), else none (null).
C12_JoinAnnouncements ==
    [][ (last'.ev = "connect" /\ ws'[last'.conn].listening)
        => LET s == last'.conn
               R == last'.frame.room
               before == IF R[2] \in DOMAIN rooms THEN rooms[R[2]] ELSE <<>>
               hello == Stringify(JObj([type |-> JStr("client_joined"),
                                        clientId |-> ws'[s].cid]))
           IN  /\ \A m \in Conns \ {s} :
                      FramesTo(last'.sent, m) =
                          IF Member(rooms, m, R[2]) /\ ws[m].readyState = OPEN
                          THEN <<[to |-> m, data |-> hello]>> ELSE <<>>
               /\ JoinedTo(last'.sent, s) =
                      [j \in 1..Len(before) |->
                          [to |-> s,
                           data |-> Stringify(JObj(
                               [type |-> JStr("client_joined"),
                                clientId |-> ws[before[j]]._clientId,
                                avatar |-> KnownAvatar(ws[before[j]], R)]))]]
      ]_vars

\* A newcomer is told of two members under one clientId, and of the
\* first with that session's own avatar although the cache entry under the
\* clientId holds another image.
C12_Witness ==
    /\ last.ev = "connect"
    /\ Len(JoinedTo(last.sent, last.conn)) = 2
    /\ LET first == JoinedTo(last.sent, last.conn)[1].data
           second == JoinedTo(last.sent, last.conn)[2].data
       IN  /\ Get(first, "avatar") = JStr(Base64("img1"))
           /\ Get(first, "clientId") = Get(second, "clientId")
           /\ avatarCache["x__" \o Get(first, "clientId")[2]] = Base64("img2")

\* The state_sync frames of sent that went to connection m, in order.
SyncsTo(sent, m) ==
    SelectSeq(sent, LAMBDA f : f.to = m /\ Get(f.data, "type") = JStr("state_sync"))

\* An admission after which the newcomer has the room's snapshot exactly
\* when the room's path is set (strictly: a non-empty string; loosely:
\* anything but null or undefined), and the room's state is what it was (a
\* room without an entry gets the initial one).
Bootstraps(strictly) ==
    (last'.ev = "connect" /\ ws'[last'.conn].listening)
    => LET s == last'.conn
           k == last'.frame.room[2]
           st == IF k \in DOMAIN roomState THEN roomState[k]
                 ELSE [path |-> JNull, playing |-> JBool(FALSE),
                       position |-> JNum(0), positionSetAt |-> now,
                       duration |-> JNull]
           due == IF strictly THEN IsStr(st.path) /\ st.path[2] # ""
                  ELSE st.path \notin {JNull, JUndef}
       IN  /\ SyncsTo(last'.sent, s) =
                  IF due
                  THEN <<[to |-> s,
                          data |-> Sync(st.path, st.playing, Effective(st, now),
                                        now, JStr("server"))]>>
                  ELSE <<>>
           /\ roomState'[k] = st
           /\ \A r \in DOMAIN roomState' \ {k} :
                  r \in DOMAIN roomState /\ roomState'[r] = roomState[r]

\* C13, as stated: a newly admitted session gets a state_sync of its
\* room's playback state exactly when the room's path is not null (the
\* empty string counts as a path), with the room's path, playing flag and
\* the position in effect at the join; joining leaves the state alone.
C13_SnapshotIfNonNull == [][Bootstraps(FALSE)]_vars

\* C13, amended: the newcomer gets the state_sync exactly when the room's
\* path is a non-empty string; with a path that is null, missing or the
\* empty string it gets none.  The rest is as stated.
C13_SnapshotIfNonEmpty == [][Bootstraps(TRUE)]_vars

\* A session joins a room that has been playing track1 since time 0, at a
\* later time, and is told that time as the position.
C13_Witness ==
    /\ last.ev = "connect"
    /\ now > 0
    /\ Len(SyncsTo(last.sent, last.conn)) = 1
    /\ Get(SyncsTo(last.sent, last.conn)[1].data, "path") = JStr("track1")
    /\ Get(SyncsTo(last.sent, last.conn)[1].data, "playing") = JBool(TRUE)
    /\ Get(SyncsTo(last.sent, last.conn)[1].data, "position") = JNum(now)

\* C14: when the disconnect cleanup of a session s that joined room R has
\* run, s is not a member of R; R has an entry in the registry exactly when
\* another member remains, and without one a broadcast to R writes nothing,
\* returns 0 and does not throw; every other session is a member of exactly
\* the rooms it was a member of.
C14_JoinThenLeave ==
    [][ (last'.ev \in {"close", "error"} /\ last'.ran)
        => LET s == last'.conn
               R == Key(ws[s]._roomId)
               probe == broadcastToRoom(rooms', R, JObj([type |-> JStr("probe")]), 0)
           IN  /\ ~Member(rooms', s, R)
               /\ R \in DOMAIN rooms'
                      <=> \E m \in Conns \ {s} : Member(rooms, m, R)
               /\ R \notin DOMAIN rooms'
                      => probe.out = <<>> /\ probe.ret = 0 /\ ~probe.threw
               /\ \A m \in Conns \ {s}, r \in DOMAIN rooms \cup DOMAIN rooms' :
                      Member(rooms', m, r) <=> Member(rooms, m, r)
               /\ \A r \in DOMAIN rooms' : Len(rooms'[r]) > 0
      ]_vars

\* The only member of room x has left and x has no entry, while the two
\* members of room y are still there.
C14_Witness ==
    /\ last.ev = "close"
    /\ last.ran
    /\ ws[last.conn]._roomId = JStr("x")
    /\ ws[last.conn].cleanups = 1
    /\ "x" \notin DOMAIN rooms
    /\ "y" \in DOMAIN rooms
    /\ Len(rooms["y"]) = 2

\* C15: over a step that changes no playback state, the position
\* currentPosition gives for a playing state grows by exactly the time the
\* step took, and for a paused state it is the stored position before and
\* after; steps add up, so the same holds between any two times with no
\* mutation in between.  The heartbeat, which computes the position of
\* every room it reports, changes no playback state.
C15_EffectivePosition ==
    [][ /\ roomState' = roomState
            => \A k \in DOMAIN roomState :
                   /\ roomState[k].playing = JBool(TRUE)
                          => currentPosition(roomState[k])'[2]
                                 - currentPosition(roomState[k])[2] = now' - now
                   /\ roomState[k].playing = JBool(FALSE)
                          => /\ currentPosition(roomState[k]) = roomState[k].position
                             /\ currentPosition(roomState[k])' = roomState[k].position
        /\ last'.ev = "heartbeat" => roomState' = roomState
      ]_vars

\* Time has passed over a room playing from a position that a seek set,
\* and the position in effect is the stored one plus that time.
C15_Witness ==
    /\ last.ev = "tick"
    /\ "x" \in DOMAIN roomState
    /\ roomState["x"].playing = JBool(TRUE)
    /\ roomState["x"].position = JNum(42500)
    /\ now - roomState["x"].positionSetAt = 2 * TickMs
    /\ currentPosition(roomState["x"]) = JNum(42500 + 2 * TickMs)

\* C16: for every playback state a room can have, playing or paused, at
\* every time: snapshotPosition leaves the position in effect now as it
\* was, sets positionSetAt to now and touches no other field but position;
\* a second snapshotPosition at the same time changes no field at all.
C16_SnapshotIdempotent ==
    \A k \in DOMAIN roomState :
        LET st == roomState[k]
            once == snapshotPosition(st)
            twice == snapshotPosition(once)
        IN  /\ currentPosition(once) = currentPosition(st)
            /\ once.positionSetAt = now
            /\ once.path = st.path
            /\ once.playing = st.playing
            /\ once.duration = st.duration
            /\ twice = once

\* A playstate message has just paused a room that had been playing for a
\* while: its snapshot moved the elapsed time into position.
C16_Witness ==
    /\ last.ev = "message"
    /\ last.frame = ShowsPlay
    /\ now > 0
    /\ "x" \in DOMAIN roomState
    /\ roomState["x"].playing = JBool(FALSE)
    /\ roomState["x"].positionSetAt = now
    /\ roomState["x"].position = JNum(42500 + TickMs)

\* C17: the messages of one connection take effect in receipt order, so a
\* message of a session that writes a frame is handled only when no earlier
\* upload of that session is still waiting to take effect.
C17_ReceiptOrder ==
    [][ (last'.ev = "message" /\ last'.ran /\ Len(last'.sent) > 0)
        => \A i \in 1..Len(pending) : pending[i].conn # last'.conn
      ]_vars

\* C18: when the image of an upload from session s in room R has been
\* processed, s's avatar and the cache entry for R and s's clientId hold
\* the image, every open member of R, s included when its socket is open,
\* gets one avatar event with s's clientId and the image and nobody gets
\* anything else, whether the write of the file ends written or failed;
\* playback state and membership are as before.
C18_AvatarSuccess ==
    [][ (last'.ev = "settle" /\ last'.frame.write \in {"written", "failed"})
        => LET s == last'.conn
               R == ws[s].room
               image == Base64(last'.frame.task.arg)
               event == Stringify(JObj([type |-> JStr("avatar"),
                                        clientId |-> ws[s].cid,
                                        data |-> JStr(image)]))
           IN  /\ ws'[s]._avatar = JStr(image)
               /\ AvatarKey(R, ws[s].cid) \in DOMAIN avatarCache'
               /\ avatarCache'[AvatarKey(R, ws[s].cid)] = image
               /\ \A m \in Conns :
                      FramesTo(last'.sent, m) =
                          IF (m = s \/ Member(rooms, m, Key(R)))
                             /\ ws[m].readyState = OPEN
                          THEN <<[to |-> m, data |-> event]>>
                          ELSE <<>>
               /\ ~last'.threw
               /\ roomState' = roomState
               /\ rooms' = rooms
      ]_vars

\* An upload by a member of a room of two has gone through, both have the
\* avatar event, and the write of the file fails.
C18_Witness ==
    /\ last.ev = "settle"
    /\ last.frame.write = "failed"
    /\ Len(last.sent) = 2
    /\ last.sent[1].to # last.conn
    /\ last.sent[2].to = last.conn
    /\ Get(last.sent[1].data, "type") = JStr("avatar")
    /\ ws[last.conn]._avatar = JStr(Base64("img1"))
    /\ avatarCache = ("x__" \o ws[last.conn].cid[2]) :> Base64("img1")

\* C19: every room's playback state is well-typed (playing is true or
\* false, path is null or a string, position is a number), and every
\* state_sync written carries a boolean playing field.
C19_WellTyped ==
    /\ \A k \in DOMAIN roomState :
           /\ roomState[k].playing \in {JBool(TRUE), JBool(FALSE)}
           /\ roomState[k].path = JNull \/ IsStr(roomState[k].path)
           /\ roomState[k].position[1] = "number"
    /\ \A i \in 1..Len(last.sent) :
           Get(last.sent[i].data, "type") = JStr("state_sync")
               => Get(last.sent[i].data, "playing") \in {JBool(TRUE), JBool(FALSE)}

\* The times of the model.
Times == {n * TickMs : n \in 0..(MaxTicks + 1)}

\* C20: a playstate message leaves the position in effect at that moment
\* as it was, whether or not it changed playing; when it changed playing to
\* true, the position in effect at every later time is the one at the flip
\* plus the time since, and when it changed playing to anything else, it
\* is the one at the flip at every later time.
C20_PlaystateContinuous ==
    [][ (last'.ev = "message" /\ last'.ran /\ last'.frame.kind = "json"
         /\ Field(last'.frame, "type") = JStr("playstate")
         /\ Field(last'.frame, "roomId") = JUndef)
        => \A k \in DOMAIN roomState :
               k = Key(ws[last'.conn].room)
               => LET before == currentPosition(roomState[k])
                      after == roomState'[k]
                  IN  /\ currentPosition(roomState[k])' = before
                      /\ after.playing # roomState[k].playing
                             => \A t \in Times :
                                    t >= now =>
                                        Effective(after, t) =
                                            IF after.playing = JBool(TRUE)
                                            THEN JNum(before[2] + (t - now))
                                            ELSE before
      ]_vars

\* A room that played for a while and was paused for a while is set
\* playing again: it goes on from where it was paused.
C20_Witness ==
    /\ last.ev = "message"
    /\ last.ran
    /\ Field(last.frame, "type") = JStr("playstate")
    /\ "x" \in DOMAIN roomState
    /\ roomState["x"].playing = JBool(TRUE)
    /\ roomState["x"].position = JNum(TickMs)
    /\ roomState["x"].positionSetAt = 2 * TickMs
    /\ now = 2 * TickMs

\* C21: at every handler boundary a session is in the set of no room but
\* the one it was admitted to, and there once; no room of the registry has
\* an empty set; a session whose cleanup has run is in no room's set.
C21_MembershipInvariant ==
    /\ \A k \in DOMAIN rooms :
           /\ Len(rooms[k]) > 0
           /\ \A i, j \in 1..Len(rooms[k]) : rooms[k][i] = rooms[k][j] => i = j
           /\ \A i \in 1..Len(rooms[k]) :
                  /\ ws[rooms[k][i]].phase = "admitted"
                  /\ k = Key(ws[rooms[k][i]].room)
    /\ \A s \in Conns :
           ws[s].cleanups > 0 => \A k \in DOMAIN rooms : ~Member(rooms, s, k)

\* Sessions in both rooms, after one session's close and error handlers
\* have both run their cleanup.
C21_Witness ==
    /\ last.ev = "error"
    /\ ws[last.conn].cleanups = 2
    /\ DOMAIN rooms = {"x", "y"}
    /\ \A k \in DOMAIN rooms : ~Member(rooms, last.conn, k)

\* C22: at every handler boundary, every room of the registry that has a
\* member has an entry in the playback state store.
C22_MembersHaveState ==
    \A k \in DOMAIN rooms : Len(rooms[k]) > 0 => k \in DOMAIN roomState

\* A join whose announcement threw, so that it never came to read the
\* room's state: the newcomer is in the room, which has its state from the
\* first join.
C22_Witness ==
    /\ last.ev = "connect"
    /\ last.threw
    /\ InRoom(last.conn, "x")
    /\ "x" \in DOMAIN roomState

\* A step that handles a JSON object which is no avatar_url, navigate,
\* playstate or seek, no timeline with a seek flag, and names no room but
\* the sender's.
IsRelay(step, room) ==
    /\ step.ev = "message"
    /\ step.ran
    /\ step.frame.kind = "json"
    /\ Field(step.frame, "type") \notin {JStr("avatar_url"), JStr("navigate"),
                                        JStr("playstate"), JStr("seek")}
    /\ ~(Field(step.frame, "type") = JStr("timeline")
         /\ Field(step.frame, "seek") \notin {JUndef, JNull, JBool(FALSE), JNum(0), JStr("")})
    /\ Field(step.frame, "roomId") \in {JUndef, JNull, JStr(""), JNum(0), room}

\* C23: a JSON message of no handled type (a timeline without seek flag,
\* an unknown type, no type at all) changes no playback state and is
\* written once to every other open member of the sender's room and to
\* nobody else, the sender least of all, with the session's client
\* identifier as clientId whatever the client put there.
C23_RelayStamped ==
    [][ IsRelay(last', ws[last'.conn].room)
        => LET s == last'.conn
               k == Key(ws[s].room)
               obj == last'.frame.obj
               relayed == JObj([f \in DOMAIN obj \cup {"clientId"} |->
                                  IF f = "clientId" THEN ws[s].cid ELSE obj[f]])
           IN  /\ roomState' = roomState
               /\ \A m \in Conns :
                      FramesTo(last'.sent, m) =
                          IF m # s /\ Member(rooms, m, k) /\ ws[m].readyState = OPEN
                          THEN <<[to |-> m, data |-> relayed]>>
                          ELSE <<>>
               /\ ~last'.threw
               /\ rooms' = rooms
      ]_vars

\* Session A's chat message, sent as from "spoof", has reached the other
\* member as from A.
C23_Witness ==
    /\ last.ev = "message"
    /\ Field(last.frame, "clientId") = JStr("spoof")
    /\ Len(last.sent) = 1
    /\ last.sent[1].to # last.conn
    /\ Get(last.sent[1].data, "type") = JStr("chat")
    /\ Get(last.sent[1].data, "clientId") = ws[last.conn].cid
    /\ ws[last.conn].cid = JStr("A")

\* Session s is an open member of room x, whose path is p, and the next
\* heartbeat is due within the time this model covers.
AwaitsBeat(s, p) ==
    /\ InRoom(s, "x")
    /\ ws[s].readyState = OPEN
    /\ "x" \in DOMAIN roomState
    /\ roomState["x"].path = p
    /\ nextBeat <= MaxTicks * TickMs

\* A heartbeat has just written to s one state_sync, with the path, the
\* playing flag and the position in effect of room x as they are.
CaughtUp(s) ==
    /\ last.ev = "heartbeat"
    /\ "x" \in DOMAIN roomState
    /\ FramesTo(last.sent, s) =
           <<[to |-> s,
              data |-> Sync(roomState["x"].path, roomState["x"].playing,
                            Effective(roomState["x"], now), now, JStr("heartbeat"))]>>

\* The session is no longer open, or the room's path is no longer p.
Disturbed(s, p) ==
    \/ ws[s].readyState # OPEN
    \/ "x" \notin DOMAIN roomState
    \/ roomState["x"].path # p

\* C24, as stated: with a timer that fires, a session that stays open in a
\* room whose path a navigate has set, the empty path too, and is not set
\* anew, gets a state_sync from the heartbeat that agrees with the room's
\* state when it is sent.
C24_CatchUpAnyPath ==
    \A s \in FewConns : \A p \in {JStr("track1"), JStr("")} :
        AwaitsBeat(s, p) ~> (CaughtUp(s) \/ Disturbed(s, p))

\* C24, amended: the same for a path that is a non-empty string; a room
\* whose path is the empty string gets nothing from the heartbeat.
C24_CatchUpNonEmptyPath ==
    \A s \in FewConns :
        AwaitsBeat(s, JStr("track1"))
            ~> (CaughtUp(s) \/ Disturbed(s, JStr("track1")))

\* The heartbeat reports track1, playing since the navigate one tick
\* before, to both members of the room.
C24_Witness ==
    /\ CaughtUp(1)
    /\ CaughtUp(2)
    /\ roomState["x"].path = JStr("track1")
    /\ roomState["x"].positionSetAt = TickMs
    /\ now = 2 * TickMs

\* C25: a room's playback state, once there, outlives its members.  No
\* join, closing handshake, close or error removes or changes an entry of
\* the store; while a room has no member, time passing changes no entry and
\* moves the position in effect of a playing room along with it; and a
\* session admitted to a room that had no member left, whose path is a
\* non-empty string, gets a state_sync with that path, the playing flag and
\* the position in effect at the join.
C25_StateOutlivesMembers ==
    [][ /\ last'.ev \in {"connect", "closing", "close", "error"}
            => \A k \in DOMAIN roomState :
                   k \in DOMAIN roomState' /\ roomState'[k] = roomState[k]
        /\ last'.ev = "tick"
            => /\ roomState' = roomState
               /\ \A k \in DOMAIN roomState \ DOMAIN rooms :
                      roomState[k].playing = JBool(TRUE)
                          => currentPosition(roomState[k])'[2]
                                 = currentPosition(roomState[k])[2] + (now' - now)
        /\ (last'.ev = "connect" /\ ws'[last'.conn].listening)
            => \A k \in DOMAIN roomState \ DOMAIN rooms :
                   (k = Key(last'.frame.room) /\ IsStr(roomState[k].path)
                    /\ roomState[k].path[2] # "")
                   => SyncsTo(last'.sent, last'.conn) =
                          <<[to |-> last'.conn,
                             data |-> Sync(roomState[k].path, roomState[k].playing,
                                           Effective(roomState[k], now), now,
                                           JStr("server"))]>>
      ]_vars

\* The member that set room x playing track1 at the start has gone, and a
\* session that joins the room two ticks later, alone, is told track1 at
\* the position of two ticks.
C25_Witness ==
    /\ last.ev = "connect"
    /\ last.conn = 2
    /\ ws[1].cleanups = 1
    /\ rooms = ("x" :> <<2>>)
    /\ now = 2 * TickMs
    /\ Len(SyncsTo(last.sent, 2)) = 1
    /\ Get(SyncsTo(last.sent, 2)[1].data, "path") = JStr("track1")
    /\ Get(SyncsTo(last.sent, 2)[1].data, "position") = JNum(2 * TickMs)

\* C26: once the cleanup of session s has run (client_left has gone to the
\* room), an upload of s that settles afterwards, with members still in
\* the room, delivers no avatar event and leaves the avatar cache alone.
C26_NoAvatarAfterLeft ==
    [][ (/\ last'.ev = "settle"
         /\ ws[last'.conn].cleanups > 0
         /\ \E m \in Conns \ {last'.conn} : Member(rooms, m, Key(ws[last'.conn].room)))
        => /\ avatarCache' = avatarCache
           /\ \A i \in 1..Len(last'.sent) :
                  Get(last'.sent[i].data, "type") # JStr("avatar")
      ]_vars

\* C27: with client identifiers unique within a room and every message
\* delivered, what a member has been told by client_joined and not since by
\* client_left is the identifiers of the other members; so a client_left
\* never reaches a member about an identifier that another member of its
\* room goes by.
C27_RosterMatchesMembers ==
    [][ last'.ev \in {"close", "error"}
        => \A i \in 1..Len(last'.sent) :
               Get(last'.sent[i].data, "type") = JStr("client_left")
               => ~\E c \in Conns \ {last'.sent[i].to} :
                      /\ Member(rooms', c, Key(ws[last'.sent[i].to]._roomId))
                      /\ ws[c]._clientId = Get(last'.sent[i].data, "clientId")
      ]_vars

\* C28: an event of a session admitted to room R (its join, a message, an
\* upload that settles, its close or error) leaves every other room's
\* playback state and member set as they were, and writes to no session
\* that is a member of another room.
C28_OtherRoomsUntouched ==
    [][ (/\ last'.ev \in {"connect", "message", "settle", "close", "error"}
         /\ ws'[last'.conn].phase = "admitted")
        => LET R == Key(ws'[last'.conn].room) IN
           /\ \A k \in (DOMAIN roomState \cup DOMAIN roomState') \ {R} :
                  /\ k \in DOMAIN roomState /\ k \in DOMAIN roomState'
                  /\ roomState'[k] = roomState[k]
           /\ \A k \in (DOMAIN rooms \cup DOMAIN rooms') \ {R} :
                  /\ k \in DOMAIN rooms /\ k \in DOMAIN rooms'
                  /\ rooms'[k] = rooms[k]
           /\ \A i \in 1..Len(last'.sent) :
                  \A k \in (DOMAIN rooms \cup DOMAIN rooms') \ {R} :
                      /\ ~Member(rooms, last'.sent[i].to, k)
                      /\ ~Member(rooms', last'.sent[i].to, k)
      ]_vars

\* A navigate in room x, with a member in room y: the state_sync goes to
\* the sender alone and room y's state is the initial one.
C28_Witness ==
    /\ last.ev = "message"
    /\ last.frame = Navigate1
    /\ InRoom(last.conn, "x")
    /\ "y" \in DOMAIN rooms
    /\ Len(last.sent) = 1
    /\ last.sent[1].to = last.conn
    /\ roomState["x"].path = JStr("track1")
    /\ roomState["y"].path = JNull

====
